---- MODULE Spec2Model ----
(***************************************************************************)
(* Model of src/main.py: the metric resolvers (get_return, get_volatility, *)
(* get_max_min, get_fundamentals), the comparators compare_returns etc., and *)
(* POST /prompt handler receive_prompt (first oracle call, the walk over   *)
(* the parsed request, second oracle call, response).                      *)
(*                                                                         *)
(* Numbers.  A float that leaves a resolver is rounded to 2 decimals; it   *)
(* is held here as the integer number of hundredths, Num(1000) = 10.0.     *)
(* float('nan') is the value NaN, Python's None is Null.                   *)
(***************************************************************************)
EXTENDS Integers, Sequences, FiniteSets, TLC

VARIABLES
    pc,            \* position of receive_prompt (and "Pure" in the function specs)
    parsed,        \* the dict `parsed` of receive_prompt, mutated in place
    todo,          \* the iterations the nested for-loops still have to run
    source,        \* history: the yf.download calls made, in order, with their answers
    info,          \* history: the Ticker(...).info reads made, in order, with their answers
    nl_text,       \* the local nl_text of receive_prompt
    response,      \* the value receive_prompt returned
    oracle,        \* history: what the first oracle call produced
    raised,        \* history: the walk raised into the outer except (line 312)
    resolved,      \* history: `parsed` as it stood when the walk ended
    fetches,       \* history: number of yfinance calls made
    summaries,     \* history: number of second oracle calls made
    call           \* function specs: the call [fn, tickers, result]

vars == <<pc, parsed, todo, source, info, nl_text, response, oracle, raised,
          resolved, fetches, summaries, call>>

(***************************************************************************)
(* Values                                                                  *)
(***************************************************************************)
Null == [k |-> "null"]
NaN == [k |-> "nan"]
Num(x) == [k |-> "num", v |-> x]
Str(s) == [k |-> "str", v |-> s]
\* what the oracle put at a leaf (null in the prompt's example); kept apart
\* from Null so that an assignment by the walk can be told from none
Placeholder == [k |-> "placeholder"]

\* an insertion-ordered dict is a sequence of [k, v] items with distinct keys
Keys(d) == [i \in 1..Len(d) |-> d[i].k]
HasKey(d, key) == \E i \in 1..Len(d) : d[i].k = key
IndexOf(d, key) == CHOOSE i \in 1..Len(d) : d[i].k = key
Get(d, key) == d[IndexOf(d, key)].v
\* d[key] = val: an existing key keeps its place, a new key goes last
DictSet(d, key, val) ==
    IF HasKey(d, key)
    THEN [d EXCEPT ![IndexOf(d, key)].v = val]
    ELSE Append(d, [k |-> key, v |-> val])

(***************************************************************************)
(* Arithmetic of the resolvers                                             *)
(***************************************************************************)
Percent == 100
Decimals == 2

RECURSIVE Pow10(_)
Pow10(n) == IF n = 0 THEN 1 ELSE 10 * Pow10(n - 1)

\* The prices are float64 and line 45 is float64 arithmetic: the division,
\* the product with 100, and round(x, 2), which for a float64 is the product
\* with 10 ** 2, the nearest integer (ties to even) and the division by 100.
\* A positive float64 is held as [m, e], its value being m * 2 ^ e, where m is
\* a natural number of at most 53 bits written in base 256, most significant
\* digit first and without leading zeros.
Significand == 53
LimbBits == 8
FracLimbs == 10

\* 2 ^ n for n up to LimbBits
Pow2(n) == <<1, 2, 4, 8, 16, 32, 64, 128, 256>>[n + 1]

Base == Pow2(LimbBits)

\* a natural number (below 2 ^ 31) as its digits, and back
RECURSIVE Digits(_)
Digits(n) == IF n = 0 THEN <<>> ELSE Digits(n \div Base) \o <<n % Base>>

RECURSIVE NatOf(_)
NatOf(v) ==
    IF Len(v) = 0 THEN 0
    ELSE Base * NatOf(SubSeq(v, 1, Len(v) - 1)) + v[Len(v)]

\* without the leading zeros
Strip(v) ==
    IF \A i \in 1..Len(v) : v[i] = 0 THEN <<>>
    ELSE LET f == CHOOSE i \in 1..Len(v) : v[i] # 0 /\ \A j \in 1..(i - 1) : v[j] = 0
         IN  SubSeq(v, f, Len(v))

\* the number of bits of v
BitLen(v) ==
    IF Len(v) = 0 THEN 0
    ELSE LimbBits * (Len(v) - 1)
            + (CHOOSE b \in 1..LimbBits : Pow2(b - 1) <= v[1] /\ v[1] < Pow2(b))

\* bit j of v, bit 0 being the last
BitAt(v, j) ==
    LET i == Len(v) - (j \div LimbBits)
    IN  IF j < 0 \/ i < 1 THEN 0 ELSE (v[i] \div Pow2(j % LimbBits)) % 2

\* whether some of the last s bits of v is 1
LowBits(v, s) ==
    LET a == s \div LimbBits
        b == s % LimbBits
    IN  \/ \E i \in 1..Len(v) : i > Len(v) - a /\ v[i] # 0
        \/ Len(v) - a >= 1 /\ v[Len(v) - a] % Pow2(b) # 0

\* v \div 2 ^ s
ShiftRight(v, s) ==
    LET a == s \div LimbBits
        b == s % LimbBits
        n == Len(v) - a
    IN  IF n <= 0 THEN <<>>
        ELSE Strip([i \in 1..n |->
                (IF i = 1 THEN 0 ELSE (v[i - 1] % Pow2(b)) * Pow2(LimbBits - b))
                    + (v[i] \div Pow2(b))])

\* v + 1
Inc(v) ==
    IF \A i \in 1..Len(v) : v[i] = Base - 1
    THEN <<1>> \o [i \in 1..Len(v) |-> 0]
    ELSE LET j == CHOOSE j \in 1..Len(v) :
                    v[j] # Base - 1 /\ \A i \in (j + 1)..Len(v) : v[i] = Base - 1
         IN  [i \in 1..Len(v) |-> IF i < j THEN v[i] ELSE IF i = j THEN v[j] + 1 ELSE 0]

\* v / 2 ^ s rounded to the nearest natural number, ties to even; `sticky`
\* says that something non-zero follows the last bit of v
RoundShift(v, s, sticky) ==
    LET half == BitAt(v, s - 1) = 1
        more == sticky \/ (s >= 2 /\ LowBits(v, s - 1))
        odd == BitAt(v, s) = 1
    IN  IF half /\ (more \/ odd) THEN Inc(ShiftRight(v, s)) ELSE ShiftRight(v, s)

\* v * 2 ^ e rounded to a float64
RoundFloat(v, e, sticky) ==
    LET s == BitLen(v) - Significand
    IN  IF s <= 0 THEN [m |-> v, e |-> e]
        ELSE [m |-> RoundShift(v, s, sticky), e |-> e + s]

\* the first k digits of the fraction r / d (0 <= r < d < 2 ^ 23) and the
\* remainder left after them
RECURSIVE FracDigits(_, _, _)
FracDigits(r, d, k) ==
    IF k = 0 THEN [digits |-> <<>>, rem |-> r]
    ELSE LET rest == FracDigits((r * Base) % d, d, k - 1)
         IN  [digits |-> <<(r * Base) \div d>> \o rest.digits, rem |-> rest.rem]

\* n / d as a float64, for integers n > 0 and 0 < d < 2 ^ 23
FloatDiv(n, d) ==
    LET frac == FracDigits(n % d, d, FracLimbs)
    IN  RoundFloat(Strip(Digits(n \div d) \o frac.digits),
                   0 - LimbBits * FracLimbs, frac.rem # 0)

\* v * k + c for a natural number k below 2 ^ 22
RECURSIVE MulC(_, _, _)
MulC(v, k, c) ==
    IF Len(v) = 0 THEN Digits(c)
    ELSE LET x == v[Len(v)] * k + c
         IN  MulC(SubSeq(v, 1, Len(v) - 1), k, x \div Base) \o <<x % Base>>

\* x * k as a float64
FloatMul(x, k) == RoundFloat(MulC(x.m, k, 0), x.e, FALSE)

\* the integer nearest to x, ties to even, for x below 2 ^ 31
Rint(x) == NatOf(RoundShift(x.m, 0 - x.e, FALSE))

\* round(n / d * 100, 2) for integers n and 0 < d < 2 ^ 23, in hundredths
Round2Pct(n, d) ==
    LET a == IF n < 0 THEN 0 - n ELSE n
        r == Rint(FloatMul(FloatMul(FloatDiv(a, d), Percent), Pow10(Decimals)))
    IN  IF n = 0 THEN 0 ELSE IF n < 0 THEN 0 - r ELSE r

RECURSIVE SeqMax(_)
SeqMax(s) ==
    IF Len(s) = 1 THEN s[1]
    ELSE LET m == SeqMax(Tail(s)) IN IF s[1] >= m THEN s[1] ELSE m

RECURSIVE SeqMin(_)
SeqMin(s) ==
    IF Len(s) = 1 THEN s[1]
    ELSE LET m == SeqMin(Tail(s)) IN IF s[1] <= m THEN s[1] ELSE m

(***************************************************************************)
(* The data source: yf.download and yf.Ticker(...).info                    *)
(***************************************************************************)
\* a download either raises or returns a frame of `rows` rows whose Close
\* column, when present, holds `close`
Raises == [ok |-> FALSE, rows |-> 0, hasClose |-> FALSE, close |-> <<>>]
Frame(s) == [ok |-> TRUE, rows |-> Len(s), hasClose |-> TRUE, close |-> s]
NoCloseFrame == [ok |-> TRUE, rows |-> 1, hasClose |-> FALSE, close |-> <<>>]

\* yf.download(ticker, period=period) against the data source as it stands
\* at the time of the call (lines 40, 52, 64)
download(yf, ticker, period) == yf[<<ticker, period>>]

\* the data source at the time of one download: every call asks it afresh
Answering(ticker, period, f) == [c \in {<<ticker, period>>} |-> f]

\* data["Close"].pct_change().dropna(): one change per row but the first
DailyReturns(close) == IF Len(close) = 0 THEN 0 ELSE Len(close) - 1

\* round(daily_returns.std() * 252 ** 0.5 * 100, 2) in hundredths, for the
\* close series of the model (the square root is not computable in TLC's
\* integers; the values are those of the float computation)
AnnualizedStdPct(close) ==
    CASE close = <<100, 110, 121>> -> 0
      [] close = <<100, 99, 110>> -> 13595
      [] close = <<100, 150, 80>> -> 108508
      [] close = <<150, 100, 80>> -> 14967
      [] close = <<100, 110, 99>> -> 22450

\* Series.std() is NaN with fewer than 2 observations (ddof = 1)
StdDefined(close) == DailyReturns(close) >= 2

(***************************************************************************)
(* Metric resolvers (lines 37-88)                                          *)
(***************************************************************************)
get_return(yf, ticker, period) ==
    LET data == download(yf, ticker, period)
    IN  IF ~data.ok THEN Null
        ELSE IF data.rows = 0 \/ ~data.hasClose THEN Null
        ELSE LET start_price == data.close[1]
                 end_price == data.close[Len(data.close)]
             IN  Num(Round2Pct(end_price - start_price, start_price))

get_volatility(yf, ticker, period) ==
    LET data == download(yf, ticker, period)
    IN  IF ~data.ok THEN Null
        ELSE IF data.rows = 0 \/ ~data.hasClose THEN Null
        ELSE IF StdDefined(data.close) THEN Num(AnnualizedStdPct(data.close))
        ELSE NaN

get_max_min(yf, ticker, period) ==
    LET data == download(yf, ticker, period)
    IN  IF ~data.ok THEN Null
        ELSE IF data.rows = 0 \/ ~data.hasClose THEN Null
        ELSE [k |-> "max_min",
              max |-> Num(Pow10(Decimals) * SeqMax(data.close)),
              min |-> Num(Pow10(Decimals) * SeqMin(data.close))]

\* float(x) if x else None: a missing (None) or zero attribute gives None
FloatOrNone(x) == IF x.k = "null" THEN Null ELSE IF x.v = 0 THEN Null ELSE x

InfoRaises ==
    [ok |-> FALSE, longName |-> Null, marketCap |-> Null, trailingPE |-> Null,
     trailingEps |-> Null, dividendYield |-> Null, debtToEquity |-> Null]

get_fundamentals(yi, ticker) ==
    LET i == yi[ticker]
    IN  IF ~i.ok THEN Null
        ELSE [k |-> "fundamentals",
              longName |-> i.longName,
              marketCap |-> FloatOrNone(i.marketCap),
              peRatio |-> FloatOrNone(i.trailingPE),
              eps |-> FloatOrNone(i.trailingEps),
              dividendYield |-> FloatOrNone(i.dividendYield),
              debtToEquity |-> FloatOrNone(i.debtToEquity)]

(***************************************************************************)
(* Comparators (lines 90-217)                                              *)
(***************************************************************************)
\* a variant of Gather that drops the `is not None` test
RECURSIVE GatherAll(_, _)
GatherAll(tickers, vals) ==
    IF Len(tickers) = 0 THEN <<>>
    ELSE LET n == Len(tickers)
         IN  DictSet(GatherAll(SubSeq(tickers, 1, n - 1), SubSeq(vals, 1, n - 1)),
                     tickers[n], vals[n])

\* the loop `for t in tickers: r = f(t); if r is not None: d[t] = r`,
\* vals[i] being f(tickers[i])
RECURSIVE Gather(_, _)
Gather(tickers, vals) ==
    IF Len(tickers) = 0 THEN <<>>
    ELSE LET n == Len(tickers)
             rest == Gather(SubSeq(tickers, 1, n - 1), SubSeq(vals, 1, n - 1))
             r == vals[n]
         IN  IF r # Null THEN DictSet(rest, tickers[n], r) ELSE rest

\* a variant of Beats that also replaces the best so far on a tie
BeatsOrTies(a, b, dir) ==
    /\ a.k = "num"
    /\ b.k = "num"
    /\ IF dir = "max" THEN a.v >= b.v ELSE a.v <= b.v

\* whether max() (dir = "max") or min() (dir = "min") lets a later key value a
\* replace the best so far b: on a strict comparison only, and every
\* comparison with NaN is false
Beats(a, b, dir) ==
    /\ a.k = "num"
    /\ b.k = "num"
    /\ IF dir = "max" THEN a.v > b.v ELSE a.v < b.v

RECURSIVE Scan(_, _, _, _)
Scan(d, i, best, dir) ==
    IF i > Len(d) THEN best
    ELSE Scan(d, i + 1, IF Beats(d[i].v, d[best].v, dir) THEN i ELSE best, dir)

\* max(d, key=lambda k: d[k]) and min(d, key=lambda k: d[k]) of a non-empty dict
PyMax(d) == d[Scan(d, 2, 1, "max")].k
PyMin(d) == d[Scan(d, 2, 1, "min")].k

NoData(msg) == [k |-> "error", error |-> msg]

\* a comparator downloads once per element of `tickers`, in order: yfs[i]
\* (yis[i]) is the data source as it stands at the i-th download
compare_returns(yfs, tickers, period) ==
    LET performances ==
            Gather(tickers, [i \in 1..Len(tickers) |-> get_return(yfs[i], tickers[i], period)])
    IN  IF Len(performances) = 0 THEN NoData("No data available for tickers")
        ELSE LET best_ticker == PyMax(performances)
             IN  [k |-> "compare_returns",
                  best_ticker |-> best_ticker,
                  best_return |-> Get(performances, best_ticker),
                  all_returns |-> performances]

compare_volatility(yfs, tickers, period) ==
    LET volatilities ==
            Gather(tickers, [i \in 1..Len(tickers) |-> get_volatility(yfs[i], tickers[i], period)])
    IN  IF Len(volatilities) = 0 THEN NoData("No volatility data available for tickers")
        ELSE LET least_volatile == PyMin(volatilities)
                 most_volatile == PyMax(volatilities)
             IN  [k |-> "compare_volatility",
                  least_volatile |-> least_volatile,
                  least_volatility |-> Get(volatilities, least_volatile),
                  most_volatile |-> most_volatile,
                  most_volatility |-> Get(volatilities, most_volatile),
                  all_volatilities |-> volatilities]

compare_max_min(yfs, tickers, period) ==
    LET max_min_data ==
            Gather(tickers, [i \in 1..Len(tickers) |-> get_max_min(yfs[i], tickers[i], period)])
        all_maxes == [i \in 1..Len(max_min_data) |->
                        [k |-> max_min_data[i].k, v |-> max_min_data[i].v.max]]
        all_mins == [i \in 1..Len(max_min_data) |->
                        [k |-> max_min_data[i].k, v |-> max_min_data[i].v.min]]
    IN  IF Len(max_min_data) = 0 THEN NoData("No max/min data available for tickers")
        ELSE LET highest_max == PyMax(all_maxes)
                 lowest_min == PyMin(all_mins)
             IN  [k |-> "compare_max_min",
                  highest_max |-> [ticker |-> highest_max,
                                   value |-> Get(all_maxes, highest_max)],
                  lowest_min |-> [ticker |-> lowest_min,
                                  value |-> Get(all_mins, lowest_min)],
                  all_data |-> max_min_data]

\* a variant of Qualifying that drops the `> 0` test
RECURSIVE QualifyingAny(_, _, _)
QualifyingAny(fd, field, positive) ==
    IF Len(fd) = 0 THEN <<>>
    ELSE LET n == Len(fd)
             rest == QualifyingAny(SubSeq(fd, 1, n - 1), field, positive)
             x == fd[n].v[field]
         IN  IF x # Null THEN Append(rest, [k |-> fd[n].k, v |-> x]) ELSE rest

\* {t: data.get(field) for t, data in fundamentals_data.items() if ...}
RECURSIVE Qualifying(_, _, _)
Qualifying(fd, field, positive) ==
    IF Len(fd) = 0 THEN <<>>
    ELSE LET n == Len(fd)
             rest == Qualifying(SubSeq(fd, 1, n - 1), field, positive)
             x == fd[n].v[field]
         IN  IF x # Null /\ (positive => x.v > 0)
             THEN Append(rest, [k |-> fd[n].k, v |-> x])
             ELSE rest

\* one `if d: comparison["analysis"][name] = {...}` block
SubComparison(analysis, name, d, dir) ==
    IF Len(d) = 0 THEN analysis
    ELSE LET w == IF dir = "max" THEN PyMax(d) ELSE PyMin(d)
         IN  DictSet(analysis, name, [ticker |-> w, value |-> Get(d, w)])

compare_fundamentals(yis, tickers) ==
    LET fundamentals_data ==
            Gather(tickers, [i \in 1..Len(tickers) |-> get_fundamentals(yis[i], tickers[i])])
        a1 == SubComparison(<<>>, "largest_market_cap",
                            Qualifying(fundamentals_data, "marketCap", FALSE), "max")
        a2 == SubComparison(a1, "best_pe_ratio",
                            Qualifying(fundamentals_data, "peRatio", TRUE), "min")
        a3 == SubComparison(a2, "highest_dividend_yield",
                            Qualifying(fundamentals_data, "dividendYield", TRUE), "max")
        a4 == SubComparison(a3, "lowest_debt_to_equity",
                            Qualifying(fundamentals_data, "debtToEquity", TRUE), "min")
    IN  IF Len(fundamentals_data) = 0
        THEN NoData("No fundamentals data available for tickers")
        ELSE [k |-> "compare_fundamentals",
              all_fundamentals |-> fundamentals_data,
              analysis |-> a4]

(***************************************************************************)
(* The parsed request: JSON as json.loads returns it                       *)
(***************************************************************************)
\* a JSON object (dict) as its items [k, v]; a JSON array of strings as its
\* elements [k]; and anything that has neither .items() nor an iterator
\* (null, a number)
MapOf(items) == [kind |-> "map", items |-> items]
ListOf(elems) == [kind |-> "list", items |-> [i \in 1..Len(elems) |-> [k |-> elems[i]]]]
Scalar == [kind |-> "scalar", items |-> <<>>]

RECURSIVE Flat(_)
Flat(ss) == IF Len(ss) = 0 THEN <<>> ELSE Head(ss) \o Flat(Tail(ss))

\* the names the if/elif chains of the walk know (lines 282-289, 304-309)
CompareMetrics == {"return", "volatility", "fundamentals", "max_min"}
PeriodMetrics == {"return", "volatility", "max_min"}

Step(op, b, s, t, p) == [op |-> op, b |-> b, s |-> s, t |-> t, p |-> p]

\* `for period in periods:` under one ticker (lines 280-291 with cmp, lines
\* 302-311 without): iterating a non-iterable raises; an iteration whose
\* metric no branch of the if/elif chain matches assigns nothing; an
\* assignment into a list raises in the try and again in its handler
PeriodSteps(metric, cmp, b, s, t, periods) ==
    IF periods.kind = "scalar" THEN <<Step("raise", b, s, t, 0)>>
    ELSE [p \in 1..Len(periods.items) |->
            IF metric \notin (IF cmp THEN CompareMetrics ELSE PeriodMetrics)
            THEN Step("skip", b, s, t, p)
            ELSE IF periods.kind = "list" THEN Step("callraise", b, s, t, p)
            ELSE Step(IF cmp THEN "compare" ELSE "resolve", b, s, t, p)]

\* `for ticker, periods in tickers_data.items():` (lines 279, 293)
TickerSteps(metric, cmp, b, s, tickers_data) ==
    IF tickers_data.kind # "map" THEN <<Step("raise", b, s, 0, 0)>>
    ELSE Flat([t \in 1..Len(tickers_data.items) |->
                IF ~cmp /\ metric = "fundamentals"
                THEN <<Step("fundamentals", b, s, t, 0)>>
                ELSE PeriodSteps(metric, cmp, b, s, t, tickers_data.items[t].v)])

\* one iteration of `for metric, tickers_data in parsed.items():` (line 276)
BranchSteps(b, metric, tickers_data) ==
    IF metric = "compare"
    THEN IF tickers_data.kind # "map" THEN <<Step("raise", b, 0, 0, 0)>>
         ELSE Flat([s \in 1..Len(tickers_data.items) |->
                     TickerSteps(tickers_data.items[s].k, TRUE, b, s,
                                 tickers_data.items[s].v)])
    ELSE TickerSteps(metric, FALSE, b, 0, tickers_data)

\* the iterations of the walk (lines 276-311) in the order the loops run
\* them; the keys of `parsed` never change during the walk, only leaf values
Steps(pj) ==
    IF pj.kind # "map" THEN <<Step("raise", 0, 0, 0, 0)>>
    ELSE Flat([b \in 1..Len(pj.items) |->
                BranchSteps(b, pj.items[b].k, pj.items[b].v)])

\* the names at a step's position
TickerMapAt(pj, st) ==
    IF st.s = 0 THEN pj.items[st.b].v ELSE pj.items[st.b].v.items[st.s].v
MetricAt(pj, st) ==
    IF st.s = 0 THEN pj.items[st.b].k ELSE pj.items[st.b].v.items[st.s].k
TickerAt(pj, st) == TickerMapAt(pj, st).items[st.t].k
PeriodAt(pj, st) == TickerMapAt(pj, st).items[st.t].v.items[st.p].k
LeafAt(pj, st) == TickerMapAt(pj, st).items[st.t].v.items[st.p].v

\* periods[period] = val, tickers_cmp[ticker][period] = val
SetLeaf(pj, st, val) ==
    IF st.s = 0
    THEN [pj EXCEPT !.items[st.b].v.items[st.t].v.items[st.p].v = val]
    ELSE [pj EXCEPT !.items[st.b].v.items[st.s].v.items[st.t].v.items[st.p].v = val]

\* tickers_data[ticker] = val (line 297)
SetTicker(pj, st, val) == [pj EXCEPT !.items[st.b].v.items[st.t].v = val]

\* the if/elif chain of lines 304-309
Resolve(metric, yf, ticker, period) ==
    CASE metric = "return" -> get_return(yf, ticker, period)
      [] metric = "volatility" -> get_volatility(yf, ticker, period)
      [] metric = "max_min" -> get_max_min(yf, ticker, period)

\* list(tickers_cmp.keys()) (lines 283-289)
CompareTickers(tickers_cmp) == Keys(tickers_cmp.items)

\* the if/elif chain of lines 282-289
Compare(sub_metric, yfs, yis, tickers, period) ==
    CASE sub_metric = "return" -> compare_returns(yfs, tickers, period)
      [] sub_metric = "volatility" -> compare_volatility(yfs, tickers, period)
      [] sub_metric = "fundamentals" -> compare_fundamentals(yis, tickers)
      [] sub_metric = "max_min" -> compare_max_min(yfs, tickers, period)

(***************************************************************************)
(* Inputs: what the data source and the oracle can answer                  *)
(***************************************************************************)
MaxPeriods == 2       \* periods listed under one ticker of a request
MaxTickers == 3       \* length of a ticker list given to a comparator

Tickers == {"A", "B", "C"}
AllPeriods == <<"ytd", "1y", "5y", "1mo">>
FnPeriod == "ytd"

\* frames a download can return to the resolvers and comparators
\* (23 / 160 * 100 is 14.374999999999998 in float64 and rounds to 14.37,
\* 719 / 5000 * 100 rounds to 14.38)
FrameSet ==
    {Raises, NoCloseFrame, Frame(<<>>), Frame(<<100>>), Frame(<<100, 110>>),
     Frame(<<100, 99, 110>>), Frame(<<100, 150, 80>>),
     Frame(<<160, 183>>), Frame(<<5000, 5719>>)}

\* frames a download can return to a comparator called on its own
CompareFrameSet ==
    {Raises, Frame(<<100>>), Frame(<<100, 110>>), Frame(<<100, 99, 110>>),
     Frame(<<100, 150, 80>>)}

\* frames a download can return during a request
WalkFrameSet == {Raises, Frame(<<100, 110>>), Frame(<<100, 150, 80>>)}

Info(name, cap, pe, eps, dy, de) ==
    [ok |-> TRUE, longName |-> name, marketCap |-> cap, trailingPE |-> pe,
     trailingEps |-> eps, dividendYield |-> dy, debtToEquity |-> de]

InfoSet ==
    {InfoRaises,
     Info(Str("Alpha"), Num(300), Num(25), Num(6), Num(1), Num(150)),
     Info(Str("Beta"), Num(200), Num(-5), Num(-1), Num(0), Null),
     Info(Null, Null, Num(25), Num(2), Num(3), Num(150)),
     Info(Str("Delta"), Num(300), Num(0), Null, Null, Num(80))}

WalkInfoSet ==
    {InfoRaises,
     Info(Str("Alpha"), Num(300), Num(25), Num(6), Num(1), Num(150)),
     Info(Str("Beta"), Num(200), Num(-5), Num(-1), Num(0), Null)}

\* Ticker(ticker).info against the data source at the time of one read
InfoAnswering(ticker, i) == [t \in {ticker} |-> i]

\* the data source as it stands at each download of one call over `tickers`
\* when the downloads are answered, in order, by `answers`
SourcesAt(tickers, period, answers) ==
    [i \in 1..Len(tickers) |-> Answering(tickers[i], period, answers[i])]
InfosAt(tickers, answers) ==
    [i \in 1..Len(tickers) |-> InfoAnswering(tickers[i], answers[i])]

\* what the downloads of one call add to the history, in the order made;
\* `st` is the iteration of the walk that made the call
Logged(st, tickers, period, answers) ==
    [i \in 1..Len(tickers) |->
        [st |-> st, ticker |-> tickers[i], period |-> period, data |-> answers[i]]]
LoggedInfo(st, tickers, answers) ==
    [i \in 1..Len(tickers) |-> [st |-> st, ticker |-> tickers[i], data |-> answers[i]]]

\* requests the first oracle call can return
PeriodSeqs ==
    {SubSeq(AllPeriods, 1, n) : n \in 1..MaxPeriods}
        \cup {<<AllPeriods[n]>> : n \in 2..MaxPeriods}
Leaves(ps) == MapOf([i \in 1..Len(ps) |-> [k |-> ps[i], v |-> Placeholder]])
Containers == {Leaves(ps) : ps \in PeriodSeqs} \cup {Scalar, ListOf(<<"ytd">>)}
\* one ticker with any container, or two tickers in either order, the
\* first with any container and the second listing "ytd"
TickerMapsOf(cs) ==
    {MapOf(<<[k |-> "A", v |-> c]>>) : c \in cs}
    \cup {MapOf(<<[k |-> ts[1], v |-> c], [k |-> ts[2], v |-> Leaves(<<"ytd">>)]>>) :
            c \in cs, ts \in {<<"A", "B">>, <<"B", "A">>}}
    \cup {Scalar}
\* a branch over one of `tms`, or a compare branch with one sub-metric over
\* one of `cms`
BranchesOf(tms, cms) ==
    {[k |-> m, v |-> tm] :
        m \in PeriodMetrics \cup {"fundamentals", "foo"}, tm \in tms}
    \cup {[k |-> "compare", v |-> MapOf(<<[k |-> sm, v |-> tm]>>)] :
            sm \in CompareMetrics \cup {"foo"}, tm \in cms}
    \cup {[k |-> "compare", v |-> Scalar]}
\* under a compare sub-metric a ticker lists "ytd", or "ytd" and one more
\* period, or holds a scalar or a list
CompareContainers ==
    {Leaves(<<"ytd">>), Leaves(SubSeq(AllPeriods, 1, 2)), Scalar, ListOf(<<"ytd">>)}
SimpleMaps ==
    {MapOf(<<[k |-> "A", v |-> Leaves(<<"ytd">>)]>>),
     MapOf(<<[k |-> "A", v |-> Leaves(<<"ytd">>)], [k |-> "B", v |-> Leaves(<<"ytd">>)]>>),
     Scalar}
OneTickerMaps == {MapOf(<<[k |-> "A", v |-> Leaves(<<"ytd">>)]>>), Scalar}
StructuredRequests ==
    {Scalar, MapOf(<<>>)}
    \cup {MapOf(<<b>>) :
            b \in BranchesOf(TickerMapsOf(Containers), TickerMapsOf(CompareContainers))}
    \cup {MapOf(<<bb[1], bb[2]>>) :
            bb \in {x \in BranchesOf(SimpleMaps, OneTickerMaps)
                            \X BranchesOf(SimpleMaps, OneTickerMaps) :
                        x[1].k # x[2].k}}
    \cup {MapOf(<<[k |-> "compare",
                   v |-> MapOf(<<[k |-> s1, v |-> tm], [k |-> s2, v |-> tm]>>)]>>) :
            s1 \in {"return"}, s2 \in {"max_min", "foo"},
            tm \in SimpleMaps \ {Scalar}}

Unparseable == [kind |-> "unparseable", items |-> <<>>]

(***************************************************************************)
(* receive_prompt (lines 230-331)                                          *)
(***************************************************************************)
\* the messages are the fixed prefixes of the code's f-strings; the text of
\* the exception that follows the prefix is left out
NoResponse == [status |-> "none"]
ErrorResponse(msg) == [status |-> "error", message |-> msg]
OkResponse(result, text) ==
    [status |-> "ok", result |-> result, natural_language |-> text]

Init ==
    /\ pc = "Received"
    /\ parsed = Null
    /\ todo = <<>>
    /\ source = <<>>
    /\ info = <<>>
    /\ nl_text = Null
    /\ response = NoResponse
    /\ oracle = Null
    /\ raised = FALSE
    /\ resolved = Null
    /\ fetches = 0
    /\ summaries = 0
    /\ call = Null

\* lines 263-272, the first call raises or its text does not parse
ParseFail ==
    /\ pc = "Received"
    /\ pc' = "ParseFailed"
    /\ oracle' = Unparseable
    /\ response' = ErrorResponse("Failed to parse JSON from GPT")
    /\ UNCHANGED <<parsed, todo, source, info, nl_text, raised, resolved,
                   fetches, summaries, call>>

\* lines 263-270, json.loads succeeds
ParseOk ==
    /\ pc = "Received"
    /\ \E out \in StructuredRequests :
        /\ oracle' = out
        /\ parsed' = out
        /\ todo' = Steps(out)
    /\ pc' = "RequestParsed"
    /\ UNCHANGED <<source, info, nl_text, response, raised, resolved,
                   fetches, summaries, call>>

Walking == pc = "RequestParsed" /\ Len(todo) > 0

\* a variant of WalkResolve without the resolvers' own try/except: a leaf
\* that cannot be resolved raises into the outer handler
WalkResolveNoIsolation ==
    /\ Walking
    /\ Head(todo).op = "resolve"
    /\ LET st == Head(todo)
           metric == MetricAt(parsed, st)
           ticker == TickerAt(parsed, st)
           period == PeriodAt(parsed, st)
       IN  \E f \in WalkFrameSet :
            /\ source' = source \o Logged(st, <<ticker>>, period, <<f>>)
            /\ IF Resolve(metric, Answering(ticker, period, f), ticker, period) = Null
               THEN /\ raised' = TRUE
                    /\ pc' = "ResolutionFailed"
                    /\ response' = ErrorResponse("Failed to fetch data")
                    /\ UNCHANGED <<parsed, todo>>
               ELSE /\ parsed' = SetLeaf(parsed, st,
                                    Resolve(metric, Answering(ticker, period, f),
                                            ticker, period))
                    /\ todo' = Tail(todo)
                    /\ UNCHANGED <<raised, pc, response>>
    /\ fetches' = fetches + 1
    /\ UNCHANGED <<info, nl_text, oracle, resolved, summaries, call>>

\* lines 302-309, one leaf of a return, volatility or max_min branch: the
\* resolver downloads the leaf's (ticker, period) once
WalkResolve ==
    /\ Walking
    /\ Head(todo).op = "resolve"
    /\ LET st == Head(todo)
           metric == MetricAt(parsed, st)
           ticker == TickerAt(parsed, st)
           period == PeriodAt(parsed, st)
       IN  \E f \in WalkFrameSet :
            /\ source' = source \o Logged(st, <<ticker>>, period, <<f>>)
            /\ parsed' = SetLeaf(parsed, st,
                            Resolve(metric, Answering(ticker, period, f), ticker, period))
    /\ todo' = Tail(todo)
    /\ fetches' = fetches + 1
    /\ UNCHANGED <<pc, info, nl_text, response, oracle, raised, resolved,
                   summaries, call>>

\* lines 295-299, one ticker of the fundamentals branch
WalkFundamentals ==
    /\ Walking
    /\ Head(todo).op = "fundamentals"
    /\ LET st == Head(todo)
           ticker == TickerAt(parsed, st)
       IN  \E i \in WalkInfoSet :
            /\ info' = info \o LoggedInfo(st, <<ticker>>, <<i>>)
            /\ parsed' = SetTicker(parsed, st,
                            get_fundamentals(InfoAnswering(ticker, i), ticker))
    /\ todo' = Tail(todo)
    /\ fetches' = fetches + 1
    /\ UNCHANGED <<pc, source, nl_text, response, oracle, raised, resolved,
                   summaries, call>>

\* a variant of WalkCompare that gives the comparator the visited ticker only
WalkCompareOwnTicker ==
    /\ Walking
    /\ Head(todo).op = "compare"
    /\ LET st == Head(todo)
           sub_metric == MetricAt(parsed, st)
           tickers == <<TickerAt(parsed, st)>>
           period == PeriodAt(parsed, st)
       IN  IF sub_metric = "fundamentals"
           THEN \E answers \in [1..Len(tickers) -> WalkInfoSet] :
                    /\ info' = info \o LoggedInfo(st, tickers, answers)
                    /\ parsed' = SetLeaf(parsed, st,
                                    compare_fundamentals(InfosAt(tickers, answers), tickers))
                    /\ UNCHANGED source
           ELSE \E answers \in [1..Len(tickers) -> WalkFrameSet] :
                    /\ source' = source \o Logged(st, tickers, period, answers)
                    /\ parsed' = SetLeaf(parsed, st,
                                    Compare(sub_metric, SourcesAt(tickers, period, answers),
                                            <<>>, tickers, period))
                    /\ UNCHANGED info
    /\ fetches' = fetches + 1
    /\ todo' = Tail(todo)
    /\ UNCHANGED <<pc, nl_text, response, oracle, raised, resolved, summaries, call>>

\* lines 280-289, one leaf of the compare branch: the comparator downloads
\* every ticker listed under the sub-metric, in key order
WalkCompare ==
    /\ Walking
    /\ Head(todo).op = "compare"
    /\ LET st == Head(todo)
           sub_metric == MetricAt(parsed, st)
           tickers == CompareTickers(TickerMapAt(parsed, st))
           period == PeriodAt(parsed, st)
       IN  /\ IF sub_metric = "fundamentals"
              THEN \E answers \in [1..Len(tickers) -> WalkInfoSet] :
                    /\ info' = info \o LoggedInfo(st, tickers, answers)
                    /\ parsed' = SetLeaf(parsed, st,
                                    compare_fundamentals(InfosAt(tickers, answers), tickers))
                    /\ UNCHANGED source
              ELSE \E answers \in [1..Len(tickers) -> WalkFrameSet] :
                    /\ source' = source \o Logged(st, tickers, period, answers)
                    /\ parsed' = SetLeaf(parsed, st,
                                    Compare(sub_metric, SourcesAt(tickers, period, answers),
                                            <<>>, tickers, period))
                    /\ UNCHANGED info
           /\ fetches' = fetches + Len(tickers)
    /\ todo' = Tail(todo)
    /\ UNCHANGED <<pc, nl_text, response, oracle, raised, resolved, summaries, call>>

\* an iteration whose metric or sub-metric no branch of the if/elif chain
\* matches: nothing is called, nothing is assigned, nothing is raised
WalkSkip ==
    /\ Walking
    /\ Head(todo).op = "skip"
    /\ todo' = Tail(todo)
    /\ UNCHANGED <<pc, parsed, source, info, nl_text, response, oracle, raised,
                   resolved, fetches, summaries, call>>

\* the resolver or comparator is called, the assignment into a list raises
\* TypeError, the handler's assignment (lines 291, 311) raises it again and
\* the outer handler returns (lines 312-313)
WalkCallRaise ==
    /\ Walking
    /\ Head(todo).op = "callraise"
    /\ LET st == Head(todo)
           tickers == IF st.s # 0 THEN CompareTickers(TickerMapAt(parsed, st))
                      ELSE <<TickerAt(parsed, st)>>
           period == PeriodAt(parsed, st)
       IN  /\ IF MetricAt(parsed, st) = "fundamentals"
              THEN \E answers \in [1..Len(tickers) -> WalkInfoSet] :
                    /\ info' = info \o LoggedInfo(st, tickers, answers)
                    /\ UNCHANGED source
              ELSE \E answers \in [1..Len(tickers) -> WalkFrameSet] :
                    /\ source' = source \o Logged(st, tickers, period, answers)
                    /\ UNCHANGED info
           /\ fetches' = fetches + Len(tickers)
    /\ raised' = TRUE
    /\ pc' = "ResolutionFailed"
    /\ response' = ErrorResponse("Failed to fetch data")
    /\ UNCHANGED <<parsed, todo, nl_text, oracle, resolved, summaries, call>>

\* a variant of WalkRaise whose handler does not return: the request goes on
\* to the summary
WalkRaiseContinue ==
    /\ Walking
    /\ Head(todo).op = "raise"
    /\ raised' = TRUE
    /\ pc' = "DataResolved"
    /\ UNCHANGED <<parsed, todo, source, info, nl_text, response, oracle, resolved,
                   fetches, summaries, call>>

\* .items() of a non-dict or iterating a non-iterable raises; the outer
\* handler returns (lines 312-313)
WalkRaise ==
    /\ Walking
    /\ Head(todo).op = "raise"
    /\ raised' = TRUE
    /\ pc' = "ResolutionFailed"
    /\ response' = ErrorResponse("Failed to fetch data")
    /\ UNCHANGED <<parsed, todo, source, info, nl_text, oracle, resolved,
                   fetches, summaries, call>>

\* the outer for-loop ends (line 276)
WalkDone ==
    /\ pc = "RequestParsed"
    /\ Len(todo) = 0
    /\ pc' = "DataResolved"
    /\ resolved' = parsed
    /\ UNCHANGED <<parsed, todo, source, info, nl_text, response, oracle, raised,
                   fetches, summaries, call>>

\* a variant of Summarize in which a failing second call aborts the request
SummarizeAborting ==
    /\ pc = "DataResolved"
    /\ \E answered \in BOOLEAN :
        IF answered
        THEN /\ nl_text' = Str("narrative")
             /\ pc' = "SummaryGenerated"
             /\ UNCHANGED response
        ELSE /\ nl_text' = Str("Failed to generate natural language summary")
             /\ pc' = "Responded"
             /\ response' = ErrorResponse("Failed to generate natural language summary")
    /\ summaries' = summaries + 1
    /\ UNCHANGED <<parsed, todo, source, info, oracle, raised, resolved, fetches, call>>

\* lines 316-325, the second oracle call answers or raises
Summarize ==
    /\ pc = "DataResolved"
    /\ \E answered \in BOOLEAN :
        nl_text' = IF answered THEN Str("narrative")
                   ELSE Str("Failed to generate natural language summary")
    /\ summaries' = summaries + 1
    /\ pc' = "SummaryGenerated"
    /\ UNCHANGED <<parsed, todo, source, info, response, oracle, raised, resolved,
                   fetches, call>>

\* lines 327-331
Respond ==
    /\ pc = "SummaryGenerated"
    /\ response' = OkResponse(parsed, nl_text)
    /\ pc' = "Responded"
    /\ UNCHANGED <<parsed, todo, source, info, nl_text, oracle, raised, resolved,
                   fetches, summaries, call>>

Next ==
    \/ ParseFail
    \/ ParseOk
    \/ WalkResolve
    \/ WalkFundamentals
    \/ WalkCompare
    \/ WalkSkip
    \/ WalkCallRaise
    \/ WalkRaise
    \/ WalkDone
    \/ Summarize
    \/ Respond

Spec == Init /\ [][Next]_vars

(***************************************************************************)
(* Properties of receive_prompt, checked under Spec                        *)
(***************************************************************************)
Terminal == {"Responded", "ParseFailed", "ResolutionFailed"}
Answered == response # NoResponse
\* the iterations of the given kinds among the walk's iterations
StepsOf(pj, ops) ==
    LET steps == Steps(pj)
    IN  {steps[i] : i \in {j \in 1..Len(steps) : steps[j].op \in ops}}

\* C1: the response is "ok" exactly when the first oracle call returned
\* parseable data and the walk raised no request-level error; an "ok"
\* response carries the populated result as it stood when the walk ended and
\* the text of the second call, which is the error string when that call failed.
C1_OkIffParsedAndWalked ==
    Answered =>
        /\ response.status \in {"ok", "error"}
        /\ response.status = "ok" <=> (oracle # Unparseable /\ ~raised)
        /\ response.status = "ok" =>
            /\ response.result = resolved
            /\ response.natural_language = nl_text
            /\ nl_text \in {Str("narrative"),
                            Str("Failed to generate natural language summary")}
        /\ response.status = "error" => DOMAIN response = {"status", "message"}

\* the summary failed, the response is ok and holds a resolved number
C1_Witness ==
    /\ pc = "Responded"
    /\ response.status = "ok"
    /\ response.natural_language = Str("Failed to generate natural language summary")
    /\ \E st \in StepsOf(oracle, {"resolve"}) :
        LeafAt(response.result, st).k = "num"

\* a value still holds the oracle's placeholder somewhere
RECURSIVE Unassigned(_)
Unassigned(v) ==
    IF v = Placeholder THEN TRUE
    ELSE IF "kind" \in DOMAIN v /\ v.kind = "map"
    THEN \E i \in 1..Len(v.items) : Unassigned(v.items[i].v)
    ELSE FALSE

\* C2: in a response with status "ok" no leaf of the result still holds the
\* placeholder the oracle produced: the walk assigned every leaf.
C2_EveryLeafResolved ==
    (Answered /\ response.status = "ok") => ~Unassigned(response.result)

BranchNames == {"return", "volatility", "fundamentals", "max_min", "compare"}

\* not a mapping, or an unknown branch name, or an unknown compare sub-metric
Malformed(pj) ==
    \/ pj.kind # "map"
    \/ \E b \in 1..Len(pj.items) :
        \/ pj.items[b].k \notin BranchNames
        \/ /\ pj.items[b].k = "compare"
           /\ pj.items[b].v.kind = "map"
           /\ \E s \in 1..Len(pj.items[b].v.items) :
                pj.items[b].v.items[s].k \notin CompareMetrics

\* C3: a Structured Request that is not a mapping or names an unknown branch
\* or compare sub-metric is answered with {status: "error", message} and no
\* result.
C3_MalformedAborts ==
    (Answered /\ oracle # Unparseable /\ Malformed(oracle)) =>
        /\ response.status = "error"
        /\ DOMAIN response = {"status", "message"}

\* the downloads an iteration of the walk made, in order
EntriesOf(log, st) == SelectSeq(log, LAMBDA e : e.st = st)
DataOf(es) == [i \in 1..Len(es) |-> es[i].data]
TickersOf(es) == [i \in 1..Len(es) |-> es[i].ticker]

\* the data source answered the same to the same question every time
UnchangedFrames(log) ==
    \A i, j \in 1..Len(log) :
        (log[i].ticker = log[j].ticker /\ log[i].period = log[j].period) =>
            log[i].data = log[j].data
UnchangedInfos(log) ==
    \A i, j \in 1..Len(log) : log[i].ticker = log[j].ticker => log[i].data = log[j].data
SourceUnchanged == UnchangedFrames(source) /\ UnchangedInfos(info)

\* no iteration of the walk raises or is skipped
WellShaped(pj) ==
    StepsOf(pj, {"raise", "callraise", "skip"}) = {}

\* C4: for a well-shaped request the response is "ok" and every leaf of a
\* return, volatility or max_min branch holds what its resolver gives for the
\* one download of its own (ticker, period): None exactly when that data is
\* unavailable, and otherwise a value no other leaf's failure changes.
C4_LeafIsolation ==
    (Answered /\ oracle # Unparseable /\ WellShaped(oracle)) =>
        /\ response.status = "ok"
        /\ \A st \in StepsOf(oracle, {"resolve"}) :
            LET es == EntriesOf(source, st)
                ticker == TickerAt(oracle, st)
                period == PeriodAt(oracle, st)
                leaf == LeafAt(response.result, st)
            IN  /\ Len(es) = 1
                /\ es[1].ticker = ticker
                /\ es[1].period = period
                /\ leaf = Null <=>
                        (~es[1].data.ok \/ es[1].data.rows = 0 \/ ~es[1].data.hasClose)
                /\ leaf = Resolve(MetricAt(oracle, st),
                                  Answering(ticker, period, es[1].data), ticker, period)

\* the download of one leaf raised, and a later download of the same ticker
\* and period gave the leaf of another branch its value
C4_Witness ==
    /\ pc = "Responded"
    /\ response.status = "ok"
    /\ \E si, sj \in StepsOf(oracle, {"resolve"}) :
        /\ si.b < sj.b
        /\ TickerAt(oracle, si) = TickerAt(oracle, sj)
        /\ PeriodAt(oracle, si) = PeriodAt(oracle, sj)
        /\ LeafAt(response.result, si) = Null
        /\ LeafAt(response.result, sj) # Null

\* the comparator a compare sub-metric names, run over all the tickers
\* listed under the sub-metric with the answers its downloads got
ComparatorOf(st) ==
    LET sub_metric == MetricAt(oracle, st)
        tickers == Keys(TickerMapAt(oracle, st).items)
        period == PeriodAt(oracle, st)
    IN  IF sub_metric = "fundamentals"
        THEN compare_fundamentals(InfosAt(tickers, DataOf(EntriesOf(info, st))), tickers)
        ELSE Compare(sub_metric, SourcesAt(tickers, period, DataOf(EntriesOf(source, st))),
                     <<>>, tickers, period)

\* C7: in an "ok" response every leaf of the compare branch under a known
\* sub-metric holds the result of that sub-metric's comparator over all the
\* tickers listed under the sub-metric, each downloaded for the leaf's
\* period; so, when the data source answers the same to the same question,
\* all leaves of one sub-metric that share a period hold the same result.
C7_CompareOverAllTickers ==
    (Answered /\ response.status = "ok") =>
        /\ \A st \in StepsOf(oracle, {"compare"}) :
            LET tickers == Keys(TickerMapAt(oracle, st).items)
                fs == EntriesOf(source, st)
                is == EntriesOf(info, st)
            IN  /\ IF MetricAt(oracle, st) = "fundamentals"
                   THEN TickersOf(is) = tickers /\ Len(fs) = 0
                   ELSE /\ TickersOf(fs) = tickers
                        /\ Len(is) = 0
                        /\ \A i \in 1..Len(fs) : fs[i].period = PeriodAt(oracle, st)
                /\ LeafAt(response.result, st) = ComparatorOf(st)
        /\ SourceUnchanged =>
            \A si, sj \in StepsOf(oracle, {"compare"}) :
                (si.b = sj.b /\ si.s = sj.s /\ PeriodAt(oracle, si) = PeriodAt(oracle, sj)) =>
                    LeafAt(response.result, si) = LeafAt(response.result, sj)

\* the data source did not change, two leaves of one sub-metric share a
\* period, and their ranking holds both tickers
C7_Witness ==
    /\ pc = "Responded"
    /\ response.status = "ok"
    /\ SourceUnchanged
    /\ \E si, sj \in StepsOf(oracle, {"compare"}) :
        LET r == LeafAt(response.result, si)
        IN  /\ si.b = sj.b
            /\ si.s = sj.s
            /\ si.t # sj.t
            /\ PeriodAt(oracle, si) = PeriodAt(oracle, sj)
            /\ r.k = "compare_returns"
            /\ Len(r.all_returns) = 2
            /\ LeafAt(response.result, sj) = r

\* the order of the states of a request
Transitions ==
    {<<"Received", "RequestParsed">>, <<"Received", "ParseFailed">>,
     <<"RequestParsed", "DataResolved">>, <<"RequestParsed", "ResolutionFailed">>,
     <<"DataResolved", "SummaryGenerated">>, <<"SummaryGenerated", "Responded">>}

\* the guard of some action of the handler holds
CanStep ==
    \/ pc = "Received"
    \/ Walking /\ Head(todo).op \in {"resolve", "fundamentals", "compare", "skip",
                                      "callraise", "raise"}
    \/ pc = "RequestParsed" /\ Len(todo) = 0
    \/ pc = "DataResolved"
    \/ pc = "SummaryGenerated"

\* what holds of the fetches, the summaries and the position in every state
C9_State ==
    /\ fetches = Len(source) + Len(info)
    /\ fetches > 0 => (oracle # Null /\ oracle # Unparseable)
    /\ summaries <= 1
    /\ summaries = 1 => (Len(todo) = 0 /\ ~raised /\ pc \in {"SummaryGenerated", "Responded"})
    /\ pc = "ParseFailed" => (fetches = 0 /\ summaries = 0)
    /\ pc = "ResolutionFailed" => summaries = 0
    /\ pc \in Terminal <=> Answered
    /\ pc \in Terminal \/ CanStep

\* every step leaves a non-terminal state along the order, and either moves
\* the request on or runs one iteration of the walk
C9_Step ==
    /\ pc \notin Terminal
    /\ pc' # pc => <<pc, pc'>> \in Transitions
    /\ pc' = pc => (pc = "RequestParsed" /\ Len(todo') < Len(todo))
    /\ fetches' # fetches => (pc = "RequestParsed" /\ oracle # Unparseable)
    /\ summaries' # summaries => (pc = "DataResolved" /\ Len(todo) = 0 /\ ~raised)

\* C9: a request moves Received -> RequestParsed -> DataResolved ->
\* SummaryGenerated -> Responded, leaving only to ParseFailed or
\* ResolutionFailed: no data is fetched before the first oracle call returned
\* parseable data; the second oracle call is made at most once, and only
\* once the walk has run every iteration without a request-level error; none
\* is made after ParseFailed or ResolutionFailed, and no fetch after
\* ParseFailed; and the request has a step to take in every state but
\* Responded, ParseFailed and ResolutionFailed, which it never leaves.
C9_LinearOrder == [](C9_State) /\ [][C9_Step]_vars

\* a request that fetched data, was summarised once and answered
C9_Witness ==
    /\ pc = "Responded"
    /\ fetches > 0
    /\ summaries = 1

(***************************************************************************)
(* The resolvers and comparators called on their own                       *)
(***************************************************************************)
TickerLists == UNION {[1..n -> Tickers] : n \in 0..MaxTickers}

\* each run makes one call: the functions keep no state between calls;
\* fn is "pending" and result Null until the function has run
Called(fn, tickers, result) == [fn |-> fn, tickers |-> tickers, result |-> result]

PureUnchanged ==
    UNCHANGED <<pc, parsed, todo, nl_text, response, oracle, raised, resolved,
                fetches, summaries>>

InitPure ==
    /\ pc = "Pure"
    /\ parsed = Null
    /\ todo = <<>>
    /\ nl_text = Null
    /\ response = NoResponse
    /\ oracle = Null
    /\ raised = FALSE
    /\ resolved = Null
    /\ fetches = 0
    /\ summaries = 0

\* the argument list of the call is open; nothing has been downloaded yet
InitFn ==
    /\ InitPure
    /\ \E ts \in TickerLists : call = Called("pending", ts, Null)
    /\ source = <<>>
    /\ info = <<>>

CallGetReturn ==
    /\ call.fn = "pending"
    /\ Len(call.tickers) = 1
    /\ \E f \in FrameSet :
        LET ticker == call.tickers[1]
        IN  /\ source' = source \o Logged(Null, <<ticker>>, FnPeriod, <<f>>)
            /\ call' = Called("get_return", call.tickers,
                              get_return(Answering(ticker, FnPeriod, f), ticker, FnPeriod))
    /\ UNCHANGED info
    /\ PureUnchanged

CallGetVolatility ==
    /\ call.fn = "pending"
    /\ Len(call.tickers) = 1
    /\ \E f \in FrameSet :
        LET ticker == call.tickers[1]
        IN  /\ source' = source \o Logged(Null, <<ticker>>, FnPeriod, <<f>>)
            /\ call' = Called("get_volatility", call.tickers,
                              get_volatility(Answering(ticker, FnPeriod, f), ticker, FnPeriod))
    /\ UNCHANGED info
    /\ PureUnchanged

CallGetMaxMin ==
    /\ call.fn = "pending"
    /\ Len(call.tickers) = 1
    /\ \E f \in FrameSet :
        LET ticker == call.tickers[1]
        IN  /\ source' = source \o Logged(Null, <<ticker>>, FnPeriod, <<f>>)
            /\ call' = Called("get_max_min", call.tickers,
                              get_max_min(Answering(ticker, FnPeriod, f), ticker, FnPeriod))
    /\ UNCHANGED info
    /\ PureUnchanged

CallCompareReturns ==
    /\ call.fn = "pending"
    /\ \E answers \in [1..Len(call.tickers) -> CompareFrameSet] :
        LET ts == call.tickers
        IN  /\ source' = source \o Logged(Null, ts, FnPeriod, answers)
            /\ call' = Called("compare_returns", ts,
                              compare_returns(SourcesAt(ts, FnPeriod, answers), ts, FnPeriod))
    /\ UNCHANGED info
    /\ PureUnchanged

CallCompareVolatility ==
    /\ call.fn = "pending"
    /\ \E answers \in [1..Len(call.tickers) -> CompareFrameSet] :
        LET ts == call.tickers
        IN  /\ source' = source \o Logged(Null, ts, FnPeriod, answers)
            /\ call' = Called("compare_volatility", ts,
                              compare_volatility(SourcesAt(ts, FnPeriod, answers), ts, FnPeriod))
    /\ UNCHANGED info
    /\ PureUnchanged

CallCompareMaxMin ==
    /\ call.fn = "pending"
    /\ \E answers \in [1..Len(call.tickers) -> CompareFrameSet] :
        LET ts == call.tickers
        IN  /\ source' = source \o Logged(Null, ts, FnPeriod, answers)
            /\ call' = Called("compare_max_min", ts,
                              compare_max_min(SourcesAt(ts, FnPeriod, answers), ts, FnPeriod))
    /\ UNCHANGED info
    /\ PureUnchanged

CallGetFundamentals ==
    /\ call.fn = "pending"
    /\ Len(call.tickers) = 1
    /\ \E i \in InfoSet :
        LET ticker == call.tickers[1]
        IN  /\ info' = info \o LoggedInfo(Null, <<ticker>>, <<i>>)
            /\ call' = Called("get_fundamentals", call.tickers,
                              get_fundamentals(InfoAnswering(ticker, i), ticker))
    /\ UNCHANGED source
    /\ PureUnchanged

CallCompareFundamentals ==
    /\ call.fn = "pending"
    /\ \E answers \in [1..Len(call.tickers) -> InfoSet] :
        LET ts == call.tickers
        IN  /\ info' = info \o LoggedInfo(Null, ts, answers)
            /\ call' = Called("compare_fundamentals", ts,
                              compare_fundamentals(InfosAt(ts, answers), ts))
    /\ UNCHANGED source
    /\ PureUnchanged

NextFn ==
    \/ CallGetReturn
    \/ CallGetVolatility
    \/ CallGetMaxMin
    \/ CallGetFundamentals
    \/ CallCompareReturns
    \/ CallCompareVolatility
    \/ CallCompareMaxMin
    \/ CallCompareFundamentals

SpecFn == InitFn /\ [][NextFn]_vars

(***************************************************************************)
(* Properties of the resolvers and comparators, checked under SpecFn       *)
(***************************************************************************)
KeySet(d) == {d[i].k : i \in 1..Len(d)}
DistinctKeys(d) == \A i, j \in 1..Len(d) : d[i].k = d[j].k => i = j
FirstIndex(s, x) == CHOOSE i \in 1..Len(s) : s[i] = x /\ \A j \in 1..(i - 1) : s[j] # x

\* what the resolvers return for each frame a download can answer with: a
\* resolver's result depends on the frame of its own download alone
ReturnOf ==
    {<<f, get_return(Answering("A", FnPeriod, f), "A", FnPeriod)>> : f \in FrameSet}
VolatilityOf ==
    {<<f, get_volatility(Answering("A", FnPeriod, f), "A", FnPeriod)>> : f \in FrameSet}
MaxMinOf ==
    {<<f, get_max_min(Answering("A", FnPeriod, f), "A", FnPeriod)>> : f \in FrameSet}
Lookup(table, f) == (CHOOSE p \in table : p[1] = f)[2]

\* what the resolver of a ranking comparator returned for each download of
\* the call, in order
ResolverResults ==
    [i \in 1..Len(source) |->
        CASE call.fn = "compare_returns" -> Lookup(ReturnOf, source[i].data)
          [] call.fn = "compare_volatility" -> Lookup(VolatilityOf, source[i].data)
          [] call.fn = "compare_max_min" -> Lookup(MaxMinOf, source[i].data)]

\* what get_fundamentals returned for each info read of the call, in order
FundamentalsResults ==
    [i \in 1..Len(info) |->
        get_fundamentals(InfoAnswering(info[i].ticker, info[i].data), info[i].ticker)]

\* the tickers for which some call of the resolver returned a value, and the
\* first and the last position of the list at which a ticker got one
Avail(vals, tickers) == {tickers[i] : i \in {j \in 1..Len(tickers) : vals[j] # Null}}
FirstAvail(vals, tickers, t) ==
    CHOOSE i \in 1..Len(tickers) :
        /\ tickers[i] = t /\ vals[i] # Null
        /\ \A j \in 1..(i - 1) : ~(tickers[j] = t /\ vals[j] # Null)
LastAvail(vals, tickers, t) ==
    CHOOSE i \in 1..Len(tickers) :
        /\ tickers[i] = t /\ vals[i] # Null
        /\ \A j \in (i + 1)..Len(tickers) : ~(tickers[j] = t /\ vals[j] # Null)

\* the per-ticker map of a ranking
MapOfRanking(r) ==
    CASE r.k = "compare_returns" -> r.all_returns
      [] r.k = "compare_volatility" -> r.all_volatilities
      [] r.k = "compare_max_min" -> r.all_data

\* the (winner, reported value, map entry of the winner) triples of a ranking
WinnersOf(r) ==
    CASE r.k = "compare_returns" ->
            {<<r.best_ticker, r.best_return, "v">>}
      [] r.k = "compare_volatility" ->
            {<<r.least_volatile, r.least_volatility, "v">>,
             <<r.most_volatile, r.most_volatility, "v">>}
      [] r.k = "compare_max_min" ->
            {<<r.highest_max.ticker, r.highest_max.value, "max">>,
             <<r.lowest_min.ticker, r.lowest_min.value, "min">>}

EntryOf(r, w) ==
    LET e == Get(MapOfRanking(r), w[1])
    IN  IF w[3] = "v" THEN e ELSE e[w[3]]

\* the part of a resolver's value a winner is ranked by
Ranked(e, w) == IF w[3] = "v" \/ e = Null THEN e ELSE e[w[3]]

RankingCalls == {"compare_returns", "compare_volatility", "compare_max_min"}

\* C5: compare_returns, compare_volatility and compare_max_min call the
\* resolver once per element of the ticker list and put in the per-ticker
\* map exactly the tickers whose resolver returned a value, each with that
\* value (the latest, when a ticker is listed twice); every named winner is
\* a key of the map and its reported value is the map's entry; and when no
\* ticker has a value the result is the "no data" record alone, with no
\* ranking field.
C5_MapAndWinners ==
    (call # Null /\ call.fn \in RankingCalls) =>
        LET r == call.result
            tickers == call.tickers
            vals == ResolverResults
            avail == Avail(vals, tickers)
        IN  /\ TickersOf(source) = tickers
            /\ Len(info) = 0
            /\ IF avail = {}
               THEN r.k = "error" /\ DOMAIN r = {"k", "error"}
               ELSE /\ r.k = call.fn
                    /\ KeySet(MapOfRanking(r)) = avail
                    /\ DistinctKeys(MapOfRanking(r))
                    /\ \A i \in 1..Len(MapOfRanking(r)) :
                        MapOfRanking(r)[i].v =
                            vals[LastAvail(vals, tickers, MapOfRanking(r)[i].k)]
                    /\ \A w \in WinnersOf(r) :
                        /\ w[1] \in avail
                        /\ w[2] = EntryOf(r, w)

\* the example of the spec: A = 10.0, B unavailable
C5_Witness ==
    /\ call # Null
    /\ call.fn = "compare_returns"
    /\ call.tickers = <<"A", "B">>
    /\ ResolverResults[2] = Null
    /\ call.result = [k |-> "compare_returns", best_ticker |-> "A",
                      best_return |-> Num(1000),
                      all_returns |-> <<[k |-> "A", v |-> Num(1000)]>>]

\* the attribute each sub-comparison of compare_fundamentals ranks
FieldOf(name) ==
    CASE name = "largest_market_cap" -> "marketCap"
      [] name = "best_pe_ratio" -> "peRatio"
      [] name = "highest_dividend_yield" -> "dividendYield"
      [] name = "lowest_debt_to_equity" -> "debtToEquity"

\* C6: when several tickers hold the value a comparator reports as winning,
\* the winner is the one of them that got its data first; with a data source
\* that answers the same to the same question this is the one that comes
\* first in the input ticker list: in the rankings of returns, volatilities,
\* maxima and minima, and in each sub-comparison of compare_fundamentals.
C6_FirstWinsTies ==
    /\ (call # Null /\ call.fn \in RankingCalls /\ call.result.k # "error") =>
        LET tickers == call.tickers
            vals == ResolverResults
        IN  \A w \in WinnersOf(call.result) :
                w[2].k = "num" =>
                    /\ \A t \in Avail(vals, tickers) :
                        Ranked(vals[LastAvail(vals, tickers, t)], w) = w[2] =>
                            FirstAvail(vals, tickers, w[1]) <= FirstAvail(vals, tickers, t)
                    /\ UnchangedFrames(source) =>
                        \A i \in 1..Len(tickers) :
                            Ranked(vals[i], w) = w[2] => FirstIndex(tickers, w[1]) <= i
    /\ (call # Null /\ call.fn = "compare_fundamentals" /\ call.result.k # "error") =>
        LET tickers == call.tickers
            vals == FundamentalsResults
        IN  \A n \in 1..Len(call.result.analysis) :
                LET sub == call.result.analysis[n]
                IN  /\ \A t \in Avail(vals, tickers) :
                        vals[LastAvail(vals, tickers, t)][FieldOf(sub.k)] = sub.v.value =>
                            FirstAvail(vals, tickers, sub.v.ticker)
                                <= FirstAvail(vals, tickers, t)
                    /\ UnchangedInfos(info) =>
                        \A i \in 1..Len(tickers) :
                            (vals[i] # Null /\ vals[i][FieldOf(sub.k)] = sub.v.value) =>
                                FirstIndex(tickers, sub.v.ticker) <= i

\* B and A return 10.0 from different prices; B is listed first and wins
C6_Witness ==
    /\ call # Null
    /\ call.fn = "compare_returns"
    /\ call.tickers = <<"B", "A">>
    /\ source[1].data # source[2].data
    /\ ResolverResults[1] = ResolverResults[2]
    /\ call.result.k = "compare_returns"
    /\ call.result.best_ticker = "B"

Analysed == {"largest_market_cap", "best_pe_ratio", "highest_dividend_yield",
             "lowest_debt_to_equity"}

\* what compare_fundamentals holds for a ticker that has data
FundamentalsOf(t) ==
    FundamentalsResults[LastAvail(FundamentalsResults, call.tickers, t)]

\* the tickers that qualify for a sub-comparison: the fetch succeeded, the
\* attribute is known and, but for the market capitalisation, positive
QualifiedFor(name) ==
    {t \in Avail(FundamentalsResults, call.tickers) :
        LET f == FundamentalsOf(t)
        IN  /\ f[FieldOf(name)] # Null
            /\ (name # "largest_market_cap" => f[FieldOf(name)].v > 0)}

\* C8: the four sub-comparisons of compare_fundamentals are independent: a
\* sub-comparison is in the analysis exactly when some ticker qualifies for
\* it (attribute known; positive for P/E, dividend yield, debt-to-equity),
\* and then its winner is a qualifying ticker holding the highest (market
\* cap, dividend yield) or lowest (P/E, debt-to-equity) qualifying value,
\* whatever the ticker's other attributes are.
C8_IndependentSubComparisons ==
    (call # Null /\ call.fn = "compare_fundamentals") =>
        LET r == call.result
        IN  /\ TickersOf(info) = call.tickers
            /\ Len(source) = 0
            /\ r.k = "error" <=> Avail(FundamentalsResults, call.tickers) = {}
            /\ r.k # "error" =>
                 /\ KeySet(r.analysis) \subseteq Analysed
                 /\ DistinctKeys(r.analysis)
                 /\ \A name \in Analysed :
                    LET q == QualifiedFor(name)
                    IN  /\ HasKey(r.analysis, name) <=> q # {}
                        /\ HasKey(r.analysis, name) =>
                            LET w == Get(r.analysis, name)
                            IN  /\ w.ticker \in q
                                /\ w.value = FundamentalsOf(w.ticker)[FieldOf(name)]
                                /\ \A t \in q :
                                    LET x == FundamentalsOf(t)[FieldOf(name)].v
                                    IN  IF name \in {"largest_market_cap",
                                                     "highest_dividend_yield"}
                                        THEN w.value.v >= x
                                        ELSE w.value.v <= x

\* a ticker with a negative P/E has the largest market cap while another
\* ticker has the best P/E
C8_Witness ==
    /\ call # Null
    /\ call.fn = "compare_fundamentals"
    /\ call.result.k = "compare_fundamentals"
    /\ HasKey(call.result.analysis, "largest_market_cap")
    /\ HasKey(call.result.analysis, "best_pe_ratio")
    /\ LET big == Get(call.result.analysis, "largest_market_cap").ticker
           pe == FundamentalsOf(big).peRatio
       IN  /\ pe # Null
           /\ pe.v < 0
           /\ Get(call.result.analysis, "best_pe_ratio").ticker # big

\* C10: get_volatility returns None whenever the download fails, the series
\* is empty or has fewer than 2 points, and a number only when the sample
\* standard deviation of the day-over-day changes is defined.
C10_VolatilityUnavailable ==
    (call # Null /\ call.fn = "get_volatility") =>
        LET data == source[1].data
        IN  /\ (~data.ok \/ data.rows = 0 \/ Len(data.close) < 2) => call.result = Null
            /\ call.result.k = "num" => StdDefined(data.close)

====
